---- MODULE Spec2Model ----
(***************************************************************************)
(* The rate limiter of webinar-buddy-bot (src/rate_limiter.py): a per-user *)
(* and a global daily cap on recorded actions, counted by queries against  *)
(* the shared rate_limits table, with fail-open error handling.            *)
(*                                                                         *)
(* Time is a tick counter shared by the limiter's clock (datetime.now())   *)
(* and the store's clock (the created_at default); a day is TicksPerDay    *)
(* ticks.  A row of rate_limits is (user_id, action_type, created_at); the *)
(* metadata column is written by record_action and read by no operation,   *)
(* so it is not part of the row here.  The table is a bag of rows.         *)
(* Every store request (execute()) either answers or raises; which one is  *)
(* an input of the operation that issues it.                               *)
(***************************************************************************)
EXTENDS Integers, Sequences, FiniteSets, TLC

\* ------------------------------------------------------------- bounds
TicksPerDay == 2
MaxTime == 3
MaxRecords == 3
MaxDaysToKeep == 1
NumCallers == 2
MaxAgentRecords == 5
MaxCopies == 2

\* ------------------------------------------------------ configuration
MAX_DAILY_USER_ACTIONS == 2
MAX_DAILY_GLOBAL_ACTIONS == 3

Users == {"a@x.com", "b@x.com"}
ActionTypes == {"register_attendee", "send_reminder"}
Times == 0..MaxTime
DaysToKeep == 0..MaxDaysToKeep

\* The agent's guarded operations, and the action type each is counted under.
AgentOps == {"register_attendee", "send_reminder", "send_followup", "run"}
ActionTypeOf(op) == IF op = "run" THEN "agent_query" ELSE op
AllTypes == ActionTypes \cup {ActionTypeOf(op) : op \in AgentOps}
Callers == 1..NumCallers

Rows == [user_id : Users, action_type : AllTypes, created_at : Times]

VARIABLES
    store,      \* the rate_limits table: Rows -> number of such rows
    now,        \* the clock, in ticks
    call,       \* the limiter call that has just returned, or Idle
    ret,        \* what that call returned
    queries,    \* the store requests that call issued, in order
    recorded,   \* history: successful record_action calls per pair today,
                \* counted while no cleanup has removed a row of today
    swept,      \* history: a cleanup removed a row created today
    agents      \* per caller of the agent: the guarded operation it is in

vars == <<store, now, call, ret, queries, recorded, swept, agents>>

\* ------------------------------------------------------------ helpers
Max(a, b) == IF a >= b THEN a ELSE b

RECURSIVE SumAll(_, _)
SumAll(f, S) ==
    IF S = {} THEN 0
    ELSE LET x == CHOOSE y \in S : TRUE
         IN  f[x] + SumAll(f, S \ {x})

\* The sum of f over S; the zero terms are left out first.
SumOver(f, S) == SumAll(f, {x \in S : f[x] # 0})

\* len(result.data) if result.data else 0
LenData(data) == SumOver(data, DOMAIN data)

EmptyTable == [r \in Rows |-> 0]

\* Optional values: None, or an integer n.
None == <<>>
Some(n) == <<n>>

\* ------------------------------------------------------ dates and times
\* datetime.now() at tick t, as a (date, time of day) value; t may be
\* negative after a timedelta has been subtracted.
DateTime(t) == [date |-> t \div TicksPerDay, tod |-> t % TicksPerDay]

\* .replace(hour=0, minute=0, second=0, microsecond=0)
ReplaceMidnight(dt) == [dt EXCEPT !.tod = 0]

\* - timedelta(days=d)
MinusDays(dt, d) == [dt EXCEPT !.date = dt.date - d]

\* .isoformat(): the fixed-width text "date T time", compared field by field
IsoFormat(dt) == <<dt.date, dt.tod>>

\* The store's comparison of a created_at value with an ISO text.
IsoLt(a, b) == a[1] < b[1] \/ (a[1] = b[1] /\ a[2] < b[2])

\* Mutant of StoreGte: the filter is gt, not gte.
StoreGte_Strict(created_at, iso) == IsoLt(iso, IsoFormat(DateTime(created_at)))

\* Mutant of StoreLt: the filter is lte, not lt.
StoreLt_Inclusive(created_at, iso) == ~IsoLt(iso, IsoFormat(DateTime(created_at)))

StoreGte(created_at, iso) == ~IsoLt(IsoFormat(DateTime(created_at)), iso)
StoreLt(created_at, iso) == IsoLt(IsoFormat(DateTime(created_at)), iso)

\* Mutant of get_today_start: the window is the last 24 hours.
get_today_start_Rolling(t) == IsoFormat(MinusDays(DateTime(t), 1))

get_today_start(t) == IsoFormat(ReplaceMidnight(DateTime(t)))

\* ---------------------------------------------------- store requests
\* Mutant of SelectUser: the action_type filter is left out.
SelectUser_AnyType(s, u, a, iso) ==
    [r \in Rows |-> IF r.user_id = u /\ StoreGte(r.created_at, iso)
                    THEN s[r] ELSE 0]

\* select("*").eq("user_id", u).eq("action_type", a).gte("created_at", iso)
SelectUser(s, u, a, iso) ==
    [r \in Rows |-> IF r.user_id = u /\ r.action_type = a
                       /\ StoreGte(r.created_at, iso)
                    THEN s[r] ELSE 0]

\* select("*").eq("action_type", a).gte("created_at", iso)
SelectGlobal(s, a, iso) ==
    [r \in Rows |-> IF r.action_type = a /\ StoreGte(r.created_at, iso)
                    THEN s[r] ELSE 0]

\* Mutant of Insert: created_at is a client-side default, not the store's
\* clock.
Insert_EpochStamp(s, u, a, t) ==
    LET r == [user_id |-> u, action_type |-> a, created_at |-> 0]
    IN  [s EXCEPT ![r] = @ + 1]

\* Mutant of Insert: an upsert that keeps one row per (user_id, action_type).
Insert_Upsert(s, u, a, t) ==
    [r \in Rows |-> IF r.user_id = u /\ r.action_type = a
                    THEN (IF r.created_at = t THEN 1 ELSE 0)
                    ELSE s[r]]

\* Mutant of Insert: the insert also refreshes created_at of the rows the
\* pair has already.
Insert_Restamp(s, u, a, t) ==
    LET Mine(r) == r.user_id = u /\ r.action_type = a
    IN  [r \in Rows |-> IF ~Mine(r) THEN s[r]
                        ELSE IF r.created_at = t
                        THEN 1 + SumOver(s, {x \in Rows : Mine(x)})
                        ELSE 0]

\* Mutant of Insert: one insert stores the row twice.
Insert_Twice(s, u, a, t) ==
    LET r == [user_id |-> u, action_type |-> a, created_at |-> t]
    IN  [s EXCEPT ![r] = @ + 2]

\* insert({...}): one more row, created_at set by the store's clock
Insert(s, u, a, t) ==
    LET r == [user_id |-> u, action_type |-> a, created_at |-> t]
    IN  [s EXCEPT ![r] = @ + 1]

\* Mutant of DeleteLeft: one delete removes at most one row of each kind.
DeleteLeft_OneEach(s, iso) ==
    [r \in Rows |-> IF StoreLt(r.created_at, iso) /\ s[r] > 0
                    THEN s[r] - 1 ELSE s[r]]

\* delete().lt("created_at", iso): the rows removed, and the rows left
DeleteMatched(s, iso) ==
    [r \in Rows |-> IF StoreLt(r.created_at, iso) THEN s[r] ELSE 0]
DeleteLeft(s, iso) ==
    [r \in Rows |-> IF StoreLt(r.created_at, iso) THEN 0 ELSE s[r]]

\* One request sent to the store, and whether it raised.
Query(kind, failed) == [q |-> kind, failed |-> failed]

\* ------------------------------------------------------ the limiter
\* Each operation yields what it returns (ret), the requests it sent
\* (queries) and, when it writes, the table it leaves (store).
UserDenied ==
    [allowed |-> FALSE, remaining |-> 0, message |-> "limit_exceeded",
     raised |-> FALSE]
UserAllowed(remaining) ==
    [allowed |-> TRUE, remaining |-> remaining, message |-> "remaining",
     raised |-> FALSE]
\* Mutant of UserFailOpen: a failed query denies.
UserFailOpen_Closed ==
    [allowed |-> FALSE, remaining |-> 0, message |-> "check_failed",
     raised |-> FALSE]

\* Mutant of UserFailOpen: check_user_limit has no handler of its own and the
\* failure reaches the handler of its caller.
UserFailOpen_Raises ==
    [allowed |-> FALSE, remaining |-> 0, message |-> "raised",
     raised |-> TRUE]

UserFailOpen ==
    [allowed |-> TRUE, remaining |-> MAX_DAILY_USER_ACTIONS,
     message |-> "check_failed", raised |-> FALSE]

\* Mutant of check_user_limit: the cap itself is still allowed.
check_user_limit_OffByOne(s, t, user_id, action_type, fail) ==
    LET today_start == get_today_start(t)
        data == SelectUser(s, user_id, action_type, today_start)
        current_count == LenData(data)
        remaining == Max(0, MAX_DAILY_USER_ACTIONS - current_count)
    IN  [queries |-> <<Query("user_count", fail)>>,
         ret |-> IF fail THEN UserFailOpen
                 ELSE IF current_count > MAX_DAILY_USER_ACTIONS
                 THEN UserDenied
                 ELSE UserAllowed(remaining)]

check_user_limit(s, t, user_id, action_type, fail) ==
    LET today_start == get_today_start(t)
        data == SelectUser(s, user_id, action_type, today_start)
        current_count == LenData(data)
        remaining == Max(0, MAX_DAILY_USER_ACTIONS - current_count)
    IN  [queries |-> <<Query("user_count", fail)>>,
         ret |-> IF fail THEN UserFailOpen
                 ELSE IF current_count >= MAX_DAILY_USER_ACTIONS
                 THEN UserDenied
                 ELSE UserAllowed(remaining)]

\* Mutant of GlobalDenied: the denial reports the whole cap as remaining.
GlobalDenied_FullRemaining ==
    [allowed |-> FALSE, remaining |-> MAX_DAILY_GLOBAL_ACTIONS,
     message |-> "limit_exceeded", raised |-> FALSE]

GlobalDenied ==
    [allowed |-> FALSE, remaining |-> 0, message |-> "limit_exceeded",
     raised |-> FALSE]
GlobalAllowed(remaining) ==
    [allowed |-> TRUE, remaining |-> remaining, message |-> "remaining",
     raised |-> FALSE]
\* Mutant of GlobalFailOpen: a failed query denies.
GlobalFailOpen_Closed ==
    [allowed |-> FALSE, remaining |-> 0, message |-> "check_failed",
     raised |-> FALSE]

GlobalFailOpen ==
    [allowed |-> TRUE, remaining |-> MAX_DAILY_GLOBAL_ACTIONS,
     message |-> "check_failed", raised |-> FALSE]

\* Mutant of check_global_limit: the count is held against the per-user cap.
check_global_limit_UserCap(s, t, action_type, fail) ==
    LET today_start == get_today_start(t)
        data == SelectGlobal(s, action_type, today_start)
        current_count == LenData(data)
        remaining == Max(0, MAX_DAILY_USER_ACTIONS - current_count)
    IN  [queries |-> <<Query("global_count", fail)>>,
         ret |-> IF fail THEN GlobalFailOpen
                 ELSE IF current_count >= MAX_DAILY_USER_ACTIONS
                 THEN GlobalDenied
                 ELSE GlobalAllowed(remaining)]

\* Mutant of check_global_limit: the cap itself is still allowed.
check_global_limit_OffByOne(s, t, action_type, fail) ==
    LET today_start == get_today_start(t)
        data == SelectGlobal(s, action_type, today_start)
        current_count == LenData(data)
        remaining == Max(0, MAX_DAILY_GLOBAL_ACTIONS - current_count)
    IN  [queries |-> <<Query("global_count", fail)>>,
         ret |-> IF fail THEN GlobalFailOpen
                 ELSE IF current_count > MAX_DAILY_GLOBAL_ACTIONS
                 THEN GlobalDenied
                 ELSE GlobalAllowed(remaining)]

check_global_limit(s, t, action_type, fail) ==
    LET today_start == get_today_start(t)
        data == SelectGlobal(s, action_type, today_start)
        current_count == LenData(data)
        remaining == Max(0, MAX_DAILY_GLOBAL_ACTIONS - current_count)
    IN  [queries |-> <<Query("global_count", fail)>>,
         ret |-> IF fail THEN GlobalFailOpen
                 ELSE IF current_count >= MAX_DAILY_GLOBAL_ACTIONS
                 THEN GlobalDenied
                 ELSE GlobalAllowed(remaining)]

record_action(s, t, user_id, action_type, fail) ==
    [queries |-> <<Query("insert", fail)>>,
     store |-> IF fail THEN s ELSE Insert(s, user_id, action_type, t),
     ret |-> [value |-> ~fail, raised |-> FALSE]]

\* Mutant of UserLimitExceeded: global_remaining is reported as 0.
UserLimitExceeded_Zero(user_check) ==
    [allowed |-> FALSE, reason |-> "user_limit_exceeded",
     message |-> user_check.message,
     user_remaining |-> Some(0), global_remaining |-> Some(0),
     raised |-> FALSE]

UserLimitExceeded(user_check) ==
    [allowed |-> FALSE, reason |-> "user_limit_exceeded",
     message |-> user_check.message,
     user_remaining |-> Some(0), global_remaining |-> None,
     raised |-> FALSE]
GlobalLimitExceeded(user_check, global_check) ==
    [allowed |-> FALSE, reason |-> "global_limit_exceeded",
     message |-> global_check.message,
     user_remaining |-> Some(user_check.remaining),
     global_remaining |-> Some(0),
     raised |-> FALSE]
WithinLimits(user_check, global_check) ==
    [allowed |-> TRUE, reason |-> "within_limits",
     message |-> "Action allowed",
     user_remaining |-> Some(user_check.remaining),
     global_remaining |-> Some(global_check.remaining),
     raised |-> FALSE]
\* Mutant of CheckFailed: there is no outer handler and the failure goes on
\* to the caller.
CheckFailed_Raises ==
    [allowed |-> FALSE, reason |-> "raised", message |-> "raised",
     user_remaining |-> None, global_remaining |-> None,
     raised |-> TRUE]

CheckFailed ==
    [allowed |-> TRUE, reason |-> "check_failed", message |-> "check_failed",
     user_remaining |-> None, global_remaining |-> None,
     raised |-> FALSE]

\* Mutant of is_action_allowed: both checks are made before either result
\* is looked at.
is_action_allowed_BothFirst(s, t, user_id, action_type, failUser, failGlobal) ==
    LET user == check_user_limit(s, t, user_id, action_type, failUser)
        global == check_global_limit(s, t, action_type, failGlobal)
        both == user.queries \o global.queries
    IN  IF ~user.ret.allowed
        THEN [queries |-> both, ret |-> UserLimitExceeded(user.ret)]
        ELSE IF ~global.ret.allowed
        THEN [queries |-> both,
              ret |-> GlobalLimitExceeded(user.ret, global.ret)]
        ELSE [queries |-> both, ret |-> WithinLimits(user.ret, global.ret)]

\* Mutant of is_action_allowed: the global check is made first.
is_action_allowed_GlobalFirst(s, t, user_id, action_type, failUser, failGlobal) ==
    LET user == check_user_limit(s, t, user_id, action_type, failUser)
        global == check_global_limit(s, t, action_type, failGlobal)
    IN  IF ~global.ret.allowed
        THEN [queries |-> global.queries,
              ret |-> GlobalLimitExceeded(user.ret, global.ret)]
        ELSE IF ~user.ret.allowed
        THEN [queries |-> global.queries \o user.queries,
              ret |-> UserLimitExceeded(user.ret)]
        ELSE [queries |-> global.queries \o user.queries,
              ret |-> WithinLimits(user.ret, global.ret)]

\* The body of is_action_allowed over the outcomes of its two sub-checks.
\* The global check is evaluated, and its request sent, only when execution
\* gets past the user check's early return; a sub-check that raises lands in
\* the except branch.
orchestrate(user, global) ==
    IF user.ret.raised
    THEN [queries |-> user.queries, ret |-> CheckFailed]
    ELSE IF ~user.ret.allowed
    THEN [queries |-> user.queries, ret |-> UserLimitExceeded(user.ret)]
    ELSE IF global.ret.raised
    THEN [queries |-> user.queries \o global.queries, ret |-> CheckFailed]
    ELSE IF ~global.ret.allowed
    THEN [queries |-> user.queries \o global.queries,
          ret |-> GlobalLimitExceeded(user.ret, global.ret)]
    ELSE [queries |-> user.queries \o global.queries,
          ret |-> WithinLimits(user.ret, global.ret)]

is_action_allowed(s, t, user_id, action_type, failUser, failGlobal) ==
    orchestrate(check_user_limit(s, t, user_id, action_type, failUser),
                check_global_limit(s, t, action_type, failGlobal))

\* A sub-check call that raises instead of returning: check_user_limit and
\* check_global_limit catch every Exception of their own, so this is a fault
\* from outside them (a replaced or wrapped sub-check).
SubCheckRaises == [queries |-> <<>>, ret |-> [raised |-> TRUE]]

\* Mutant of cutoff_date: the days are not subtracted.
cutoff_date_NoDays(t, days_to_keep) == IsoFormat(DateTime(t))

cutoff_date(t, days_to_keep) ==
    IsoFormat(MinusDays(DateTime(t), days_to_keep))

\* Mutant of cleanup_old_records: the request raises after the rows are gone.
cleanup_old_records_LateFailure(s, t, days_to_keep, fail) ==
    LET deleted == DeleteMatched(s, cutoff_date(t, days_to_keep))
    IN  [queries |-> <<Query("delete", fail)>>,
         store |-> DeleteLeft(s, cutoff_date(t, days_to_keep)),
         ret |-> [value |-> IF fail THEN 0 ELSE LenData(deleted),
                  raised |-> FALSE]]

cleanup_old_records(s, t, days_to_keep, fail) ==
    LET deleted == DeleteMatched(s, cutoff_date(t, days_to_keep))
    IN  [queries |-> <<Query("delete", fail)>>,
         store |-> IF fail THEN s
                   ELSE DeleteLeft(s, cutoff_date(t, days_to_keep)),
         ret |-> [value |-> IF fail THEN 0 ELSE LenData(deleted),
                  raised |-> FALSE]]

\* Local midnight of the day of tick t, as a tick.
Midnight(t) == CHOOSE m \in 0..t : m % TicksPerDay = 0 /\ t < m + TicksPerDay

\* ------------------------------------------------------------ actions
\* The caller is between two calls.
Idle == [op |-> "idle"]
NoRet == [raised |-> FALSE]
NoneRecorded == [u \in Users |-> [a \in AllTypes |-> 0]]

\* A caller of the agent that is in no operation.
AgentIdle ==
    [pc |-> "idle", op |-> "none", user_id |-> "none", reason |-> "none",
     checks |-> 0, effects |-> 0, records |-> 0, recorded_ok |-> "none",
     outcome |-> "none", checked_on |-> -1]

Init ==
    /\ store = EmptyTable
    /\ now = 0
    /\ call = Idle
    /\ ret = NoRet
    /\ queries = <<>>
    /\ recorded = NoneRecorded
    /\ swept = FALSE
    /\ agents = [p \in Callers |-> AgentIdle]

CheckUserLimit ==
    \E u \in Users, a \in ActionTypes, fail \in BOOLEAN :
        /\ call = Idle
        /\ call' = [op |-> "check_user_limit", user_id |-> u,
                    action_type |-> a]
        /\ LET out == check_user_limit(store, now, u, a, fail)
           IN  ret' = out.ret /\ queries' = out.queries
        /\ UNCHANGED <<store, now, recorded, swept, agents>>

CheckGlobalLimit ==
    \E a \in ActionTypes, fail \in BOOLEAN :
        /\ call = Idle
        /\ call' = [op |-> "check_global_limit", action_type |-> a]
        /\ LET out == check_global_limit(store, now, a, fail)
           IN  ret' = out.ret /\ queries' = out.queries
        /\ UNCHANGED <<store, now, recorded, swept, agents>>

IsActionAllowed ==
    \E u \in Users, a \in ActionTypes, failUser \in BOOLEAN,
       failGlobal \in BOOLEAN :
        /\ call = Idle
        /\ call' = [op |-> "is_action_allowed", user_id |-> u,
                    action_type |-> a]
        /\ LET out == is_action_allowed(store, now, u, a, failUser,
                                        failGlobal)
           IN  ret' = out.ret /\ queries' = out.queries
        /\ UNCHANGED <<store, now, recorded, swept, agents>>

RecordAction ==
    \E u \in Users, a \in ActionTypes, fail \in BOOLEAN :
        /\ call = Idle
        /\ fail \/ LenData(store) < MaxRecords
        /\ call' = [op |-> "record_action", user_id |-> u, action_type |-> a]
        /\ LET out == record_action(store, now, u, a, fail)
           IN  ret' = out.ret /\ queries' = out.queries
               /\ store' = out.store
        /\ recorded' = IF fail \/ swept THEN recorded
                       ELSE [recorded EXCEPT ![u][a] = @ + 1]
        /\ UNCHANGED <<now, swept, agents>>

CleanupOldRecords ==
    \E d \in DaysToKeep, fail \in BOOLEAN :
        /\ call = Idle
        /\ call' = [op |-> "cleanup_old_records", days_to_keep |-> d]
        /\ LET out == cleanup_old_records(store, now, d, fail)
           IN  ret' = out.ret /\ queries' = out.queries
               /\ store' = out.store
        /\ swept' = (swept \/ \E r \in Rows :
                        /\ store[r] > store'[r]
                        /\ r.created_at >= Midnight(now))
        /\ recorded' = IF swept' THEN NoneRecorded ELSE recorded
        /\ UNCHANGED <<now, agents>>

\* The call has returned to its caller, which goes on.
Return ==
    /\ call # Idle
    /\ call' = Idle
    /\ ret' = NoRet
    /\ queries' = <<>>
    /\ UNCHANGED <<store, now, recorded, swept, agents>>

\* Time passes between calls; at midnight the per-day history starts again.
Tick ==
    /\ call = Idle
    /\ now < MaxTime
    /\ now' = now + 1
    /\ IF (now + 1) % TicksPerDay = 0
       THEN /\ recorded' = NoneRecorded
            /\ swept' = FALSE
       ELSE UNCHANGED <<recorded, swept>>
    /\ UNCHANGED <<store, call, ret, queries, agents>>

Next ==
    \/ CheckUserLimit
    \/ CheckGlobalLimit
    \/ IsActionAllowed
    \/ RecordAction
    \/ CleanupOldRecords
    \/ Return
    \/ Tick

Spec == Init /\ [][Next]_vars

\* is_action_allowed with a sub-check that raises: the user check, or the
\* global check when execution reaches it.
IsActionAllowedEscape ==
    \E u \in Users, a \in ActionTypes, failUser \in BOOLEAN,
       failGlobal \in BOOLEAN, escUser \in BOOLEAN :
        LET user == IF escUser THEN SubCheckRaises
                    ELSE check_user_limit(store, now, u, a, failUser)
            global == IF escUser
                      THEN check_global_limit(store, now, a, failGlobal)
                      ELSE SubCheckRaises
            out == orchestrate(user, global)
        IN  /\ call = Idle
            /\ call' = [op |-> "is_action_allowed", user_id |-> u,
                        action_type |-> a,
                        escaped |-> (escUser \/ user.ret.allowed)]
            /\ ret' = out.ret
            /\ queries' = out.queries
            /\ UNCHANGED <<store, now, recorded, swept, agents>>

NextEscape ==
    \/ Next
    \/ IsActionAllowedEscape

SpecEscape == Init /\ [][NextEscape]_vars

\* The checks on any table: the rows a table can hold at tick t are rows of
\* one action type created up to t, each up to MaxCopies times.
SeedRows(t) ==
    {r \in Rows : r.action_type = "register_attendee" /\ r.created_at <= t}

InitAnyStore ==
    /\ now \in Times
    /\ \E f \in [SeedRows(now) -> 0..MaxCopies] :
           store = [r \in Rows |-> IF r \in SeedRows(now) THEN f[r] ELSE 0]
    /\ call = Idle
    /\ ret = NoRet
    /\ queries = <<>>
    /\ recorded = NoneRecorded
    /\ swept = FALSE
    /\ agents = [p \in Callers |-> AgentIdle]

NextAnyStore ==
    \/ CheckUserLimit
    \/ CheckGlobalLimit
    \/ Return
    \/ Tick

SpecAnyStore == InitAnyStore /\ [][NextAnyStore]_vars

\* ------------------------------------------------------------ the agent
\* WebinarEngagementAgent._check_rate_limit: (allowed, message), with the
\* limiter's reason kept for the record.
check_rate_limit(s, t, user_id, action_type, failUser, failGlobal) ==
    LET result == is_action_allowed(s, t, user_id, action_type, failUser,
                                    failGlobal).ret
    IN  IF result.raised
        THEN [allowed |-> TRUE, message |-> "OK", reason |-> "raised"]
        ELSE IF ~result.allowed
        THEN [allowed |-> FALSE, message |-> result.message,
              reason |-> result.reason]
        ELSE [allowed |-> TRUE, message |-> "OK", reason |-> result.reason]

\* WebinarEngagementAgent._record_action: the limiter's answer is dropped and
\* nothing is raised.
agent_record_action(s, t, user_id, action_type, fail) ==
    LET out == record_action(s, t, user_id, action_type, fail)
    IN  [store |-> out.store,
         value |-> IF out.ret.raised THEN "raised"
                   ELSE IF out.ret.value THEN "true" ELSE "false",
         raised |-> FALSE]

\* Which operations have a feature toggle, and which look the attendee and
\* the event up before the rate-limit check.
HasToggle(op) == op \in {"send_reminder", "send_followup", "run"}
LooksUp(op) == op \in {"send_reminder", "send_followup"}
\* Which operations parse their input before the rate-limit check.
Parses(op) == op # "run"

\* How the guarded store operation can end: done; the insert returned no row
\* (register_attendee tests result.data); the request raised; and, in
\* register_attendee, the events lookup or update after the insert raised.
EffectOutcomes(op, F) ==
    {"ok"}
    \cup (IF TRUE \in F THEN {"raise"} ELSE {})
    \cup (IF TRUE \in F /\ op = "register_attendee"
          THEN {"empty", "events_raise"} ELSE {})

\* The operation has returned without reaching the rate-limit check.
Refused(op, user_id, outcome) ==
    [AgentIdle EXCEPT !.pc = "done", !.op = op, !.user_id = user_id,
                      !.outcome = outcome]

\* Mutant of AfterCheck: the answer of the check is not looked at.
AfterCheck_IgnoresDenial(op, user_id, c) ==
    [AgentIdle EXCEPT !.op = op, !.user_id = user_id, !.checks = 1,
                      !.reason = c.reason, !.pc = "effect"]

\* The caller after _check_rate_limit has answered c: on a denial the
\* operation returns the message; otherwise it goes on to the side effect.
AfterCheck(op, user_id, c) ==
    [AgentIdle EXCEPT !.op = op, !.user_id = user_id, !.checks = 1,
                      !.reason = c.reason,
                      !.pc = IF c.allowed THEN "effect" ELSE "done",
                      !.outcome = IF c.allowed THEN "none"
                                  ELSE "rate_limited"]

\* The caller after the guarded store operation has ended with outcome o.
AfterEffect(a, o) ==
    IF o = "ok"
    THEN [a EXCEPT !.effects = @ + 1, !.pc = "record"]
    ELSE IF o = "events_raise"
    THEN [a EXCEPT !.effects = @ + 1, !.pc = "done", !.outcome = "error"]
    ELSE IF o = "empty"
    THEN [a EXCEPT !.pc = "done", !.outcome = "failed"]
    ELSE [a EXCEPT !.pc = "done", !.outcome = "error"]

\* Mutant of AfterRecord: a record that was not stored fails the operation.
AfterRecord_Propagates(a, out) ==
    [a EXCEPT !.records = @ + 1, !.recorded_ok = out.value,
              !.pc = "done",
              !.outcome = IF out.value = "true" THEN "success" ELSE "error"]

\* The caller after _record_action has returned: the operation reports
\* success whatever the limiter answered.
AfterRecord(a, out) ==
    [a EXCEPT !.records = @ + 1, !.recorded_ok = out.value,
              !.pc = "done",
              !.outcome = IF out.raised THEN "error" ELSE "success"]

\* The date on which the operation's rate-limit check ran.
CheckedOn(a, t) == [a EXCEPT !.checked_on = DateTime(t).date]

\* A guarded operation starts: the feature toggle, the lookups, then the
\* rate-limit check.
AgentCheck(p, Us, Ops, F) ==
    \E op \in Ops, u \in Us, enabled \in BOOLEAN,
       lookup \in {"found", "not_found"} \cup
                  (IF TRUE \in F THEN {"raise"} ELSE {}),
       failUser \in F, failGlobal \in F :
        /\ agents[p].pc = "idle"
        /\ enabled \/ HasToggle(op)
        /\ \/ lookup = "found"
           \/ enabled /\ lookup = "not_found" /\ LooksUp(op)
           \/ enabled /\ lookup = "raise" /\ (LooksUp(op) \/ Parses(op))
        /\ agents' =
             [agents EXCEPT ![p] =
                IF ~enabled THEN Refused(op, u, "disabled")
                ELSE IF lookup = "not_found" THEN Refused(op, u, "not_found")
                ELSE IF lookup = "raise" THEN Refused(op, u, "error")
                ELSE CheckedOn(
                         AfterCheck(op, u,
                             check_rate_limit(store, now, u, ActionTypeOf(op),
                                              failUser, failGlobal)),
                         now)]
        /\ UNCHANGED <<store, now, call, ret, queries, recorded, swept>>

\* The guarded store operation: the attendees insert, the email_logs insert
\* or the run of the language-model agent.
AgentEffect(p, F) ==
    \E o \in EffectOutcomes(agents[p].op, F) :
        /\ agents[p].pc = "effect"
        /\ agents' = [agents EXCEPT ![p] = AfterEffect(@, o)]
        /\ UNCHANGED <<store, now, call, ret, queries, recorded, swept>>

\* _record_action, and the operation returns.
AgentRecord(p, F, cap) ==
    \E fail \in F :
        LET a == agents[p]
            out == agent_record_action(store, now, a.user_id,
                                       ActionTypeOf(a.op), fail)
        IN  /\ a.pc = "record"
            /\ fail \/ LenData(store) < cap
            /\ store' = out.store
            /\ agents' = [agents EXCEPT ![p] = AfterRecord(@, out)]
            /\ recorded' =
                 IF fail \/ swept THEN recorded
                 ELSE [recorded EXCEPT ![a.user_id][ActionTypeOf(a.op)]
                                           = @ + 1]
            /\ UNCHANGED <<now, call, ret, queries, swept>>

\* The caller has taken the operation's answer.
AgentFinish(p) ==
    /\ agents[p].pc = "done"
    /\ agents' = [agents EXCEPT ![p] = AgentIdle]
    /\ UNCHANGED <<store, now, call, ret, queries, recorded, swept>>

\* One caller at a time for one user, the store failing or not.
NextAgent ==
    \/ AgentCheck(1, {"a@x.com"}, AgentOps, BOOLEAN)
    \/ AgentEffect(1, BOOLEAN)
    \/ AgentRecord(1, BOOLEAN, MaxRecords)
    \/ AgentFinish(1)
    \/ Tick

SpecAgent == Init /\ [][NextAgent]_vars

\* One caller at a time and no failure.
NextSeq ==
    \/ AgentCheck(1, Users, ActionTypes, {FALSE})
    \/ AgentEffect(1, {FALSE})
    \/ AgentRecord(1, {FALSE}, MaxAgentRecords)
    \/ AgentFinish(1)
    \/ Tick

SpecSeq == Init /\ [][NextSeq]_vars

\* Concurrent callers of register_attendee and no failure.
NextRace ==
    \/ \E p \in Callers : AgentCheck(p, Users, {"register_attendee"}, {FALSE})
    \/ \E p \in Callers : AgentEffect(p, {FALSE})
    \/ \E p \in Callers : AgentRecord(p, {FALSE}, MaxAgentRecords)
    \/ \E p \in Callers : AgentFinish(p)
    \/ Tick

SpecRace == Init /\ [][NextRace]_vars

\* One caller of register_attendee with no failure, and direct calls of the
\* two checks: what the checks return after the agent has been denied.
NextReset ==
    \/ AgentCheck(1, Users, {"register_attendee"}, {FALSE})
    \/ AgentEffect(1, {FALSE})
    \/ AgentRecord(1, {FALSE}, MaxRecords)
    \/ AgentFinish(1)
    \/ CheckUserLimit
    \/ CheckGlobalLimit
    \/ Return
    \/ Tick

SpecReset == Init /\ [][NextReset]_vars

\* ------------------------------------------------------------- claims
\* The counts the specification speaks of, taken from the table and the
\* clock directly: rows of today are those created at or after Midnight(now).
IsToday(r) == r.created_at >= Midnight(now)
TodayUserCount(u, a) ==
    SumOver(store, {r \in Rows : r.user_id = u /\ r.action_type = a
                                 /\ IsToday(r)})
TodayGlobalCount(a) ==
    SumOver(store, {r \in Rows : r.action_type = a /\ IsToday(r)})
Returned(op) == call.op = op
NoQueryFailed == \A i \in 1..Len(queries) : ~queries[i].failed
SomeQueryFailed == \E i \in 1..Len(queries) : queries[i].failed
QueryFailed(kind) ==
    \E i \in 1..Len(queries) : queries[i].q = kind /\ queries[i].failed
QuerySent(kind) == \E i \in 1..Len(queries) : queries[i].q = kind
\* The table with only the rows r that satisfy Keep(r).
Only(Keep(_)) == [r \in Rows |-> IF Keep(r) THEN store[r] ELSE 0]

\* C1: when its query succeeds, check_user_limit(user_id, action_type)
\* returns allowed = (count < MAX_DAILY_USER_ACTIONS) and
\* remaining = max(0, MAX_DAILY_USER_ACTIONS - count), count being the rows
\* of that user and type created today; rows of other users or types do not
\* change the result (it is the result on the table without them).
C1_UserLimitContract ==
    (Returned("check_user_limit") /\ NoQueryFailed) =>
        LET u == call.user_id
            a == call.action_type
            count == TodayUserCount(u, a)
            OwnRow(r) == r.user_id = u /\ r.action_type = a
        IN  /\ ret.allowed = (count < MAX_DAILY_USER_ACTIONS)
            /\ ret.remaining = Max(0, MAX_DAILY_USER_ACTIONS - count)
            /\ ret = check_user_limit(Only(OwnRow), now, u, a, FALSE).ret

C1_Witness ==
    /\ Returned("check_user_limit") /\ NoQueryFailed
    /\ TodayUserCount(call.user_id, call.action_type) = 1
    /\ ret.remaining = MAX_DAILY_USER_ACTIONS - 1
    /\ \E r \in Rows : /\ store[r] > 0 /\ IsToday(r)
                       /\ r.user_id # call.user_id
                       /\ r.action_type = call.action_type
    /\ \E r \in Rows : /\ store[r] > 0 /\ IsToday(r)
                       /\ r.user_id = call.user_id
                       /\ r.action_type # call.action_type

\* C2: starting from no rows of today for a pair, after exactly
\* MAX_DAILY_USER_ACTIONS successful record_action calls for it within the
\* day, check_user_limit returns allowed = false, remaining = 0; after
\* MAX_DAILY_USER_ACTIONS - 1 such calls, allowed = true, remaining = 1.
C2_CapReachedAfterRecords ==
    (Returned("check_user_limit") /\ NoQueryFailed /\ ~swept) =>
        LET n == recorded[call.user_id][call.action_type]
        IN  /\ n = MAX_DAILY_USER_ACTIONS =>
                   (~ret.allowed /\ ret.remaining = 0)
            /\ n = MAX_DAILY_USER_ACTIONS - 1 =>
                   (ret.allowed /\ ret.remaining = 1)

C2_Witness ==
    /\ Returned("check_user_limit") /\ NoQueryFailed /\ ~swept
    /\ recorded[call.user_id][call.action_type] = MAX_DAILY_USER_ACTIONS
    /\ ~ret.allowed
    /\ now >= TicksPerDay

\* C3: when its query succeeds, check_global_limit(action_type) returns
\* allowed = (count < MAX_DAILY_GLOBAL_ACTIONS) and
\* remaining = max(0, MAX_DAILY_GLOBAL_ACTIONS - count), count being the rows
\* of that type of all users created today; rows of other types do not
\* change the result.
C3_GlobalLimitContract ==
    (Returned("check_global_limit") /\ NoQueryFailed) =>
        LET a == call.action_type
            count == TodayGlobalCount(a)
            OwnType(r) == r.action_type = a
        IN  /\ ret.allowed = (count < MAX_DAILY_GLOBAL_ACTIONS)
            /\ ret.remaining = Max(0, MAX_DAILY_GLOBAL_ACTIONS - count)
            /\ ret = check_global_limit(Only(OwnType), now, a, FALSE).ret

C3_Witness ==
    /\ Returned("check_global_limit") /\ NoQueryFailed
    /\ TodayGlobalCount(call.action_type) = 2
    /\ ret.remaining = MAX_DAILY_GLOBAL_ACTIONS - 2
    /\ \A u \in Users : TodayUserCount(u, call.action_type) = 1
    /\ \E r \in Rows : /\ store[r] > 0 /\ IsToday(r)
                       /\ r.action_type # call.action_type

\* C4: in both checks a row created strictly before local midnight of the
\* current day is never counted (the result is the one on the table without
\* such rows), and a row created at exactly midnight is counted (every
\* matching row of that instant takes one from remaining, and the cap is
\* reached once there are as many of them as the cap).
C4_MidnightBoundary ==
    LET NotBefore(r) == r.created_at >= Midnight(now)
        AtMidnight(u, a) ==
            store[[user_id |-> u, action_type |-> a,
                   created_at |-> Midnight(now)]]
        GlobalAtMidnight(a) ==
            SumOver([u \in Users |-> AtMidnight(u, a)], Users)
    IN  /\ (Returned("check_user_limit") /\ NoQueryFailed) =>
            /\ ret = check_user_limit(Only(NotBefore), now, call.user_id,
                                      call.action_type, FALSE).ret
            /\ ret.remaining <=
                   Max(0, MAX_DAILY_USER_ACTIONS
                          - AtMidnight(call.user_id, call.action_type))
            /\ AtMidnight(call.user_id, call.action_type)
                   >= MAX_DAILY_USER_ACTIONS => ~ret.allowed
        /\ (Returned("check_global_limit") /\ NoQueryFailed) =>
            /\ ret = check_global_limit(Only(NotBefore), now,
                                        call.action_type, FALSE).ret
            /\ ret.remaining <=
                   Max(0, MAX_DAILY_GLOBAL_ACTIONS
                          - GlobalAtMidnight(call.action_type))
            /\ GlobalAtMidnight(call.action_type)
                   >= MAX_DAILY_GLOBAL_ACTIONS => ~ret.allowed

\* One row at the last tick of yesterday and one at 00:00:00 today, the
\* clock being later today: only the second is counted.
C4_Witness ==
    /\ Returned("check_user_limit") /\ NoQueryFailed
    /\ now > Midnight(now) /\ Midnight(now) > 0
    /\ store[[user_id |-> call.user_id, action_type |-> call.action_type,
              created_at |-> Midnight(now) - 1]] = 1
    /\ store[[user_id |-> call.user_id, action_type |-> call.action_type,
              created_at |-> Midnight(now)]] = 1
    /\ ret.allowed /\ ret.remaining = MAX_DAILY_USER_ACTIONS - 1

\* C5: when no query fails, is_action_allowed returns allowed = true with
\* reason within_limits exactly when the user's count is below
\* MAX_DAILY_USER_ACTIONS and the global count below
\* MAX_DAILY_GLOBAL_ACTIONS; reason user_limit_exceeded when the user's count
\* has reached its cap; and, the user under quota but the global count at its
\* cap, allowed = false, reason global_limit_exceeded, user_remaining > 0 and
\* global_remaining = 0.
C5_Decision ==
    (Returned("is_action_allowed") /\ NoQueryFailed) =>
        LET uc == TodayUserCount(call.user_id, call.action_type)
            gc == TodayGlobalCount(call.action_type)
        IN  /\ (ret.allowed /\ ret.reason = "within_limits")
                   <=> (uc < MAX_DAILY_USER_ACTIONS
                        /\ gc < MAX_DAILY_GLOBAL_ACTIONS)
            /\ ret.allowed => ret.reason = "within_limits"
            /\ uc >= MAX_DAILY_USER_ACTIONS =>
                   (~ret.allowed /\ ret.reason = "user_limit_exceeded")
            /\ (uc < MAX_DAILY_USER_ACTIONS
                /\ gc >= MAX_DAILY_GLOBAL_ACTIONS) =>
                   /\ ~ret.allowed
                   /\ ret.reason = "global_limit_exceeded"
                   /\ ret.user_remaining # None
                   /\ ret.user_remaining[1] > 0
                   /\ ret.global_remaining = Some(0)

\* A user without a row of their own is denied by other users' rows alone.
C5_Witness ==
    /\ Returned("is_action_allowed") /\ NoQueryFailed
    /\ TodayUserCount(call.user_id, call.action_type) = 0
    /\ TodayGlobalCount(call.action_type) = MAX_DAILY_GLOBAL_ACTIONS
    /\ ret.reason = "global_limit_exceeded"
    /\ ret.user_remaining = Some(MAX_DAILY_USER_ACTIONS)

\* C6: is_action_allowed sends the user-count query first, and when the user
\* check denies it sends no global-count query.
C6_ShortCircuit ==
    Returned("is_action_allowed") =>
        /\ Len(queries) >= 1
        /\ queries[1].q = "user_count"
        /\ \A i \in 2..Len(queries) : queries[i].q = "global_count"
        /\ (~queries[1].failed
            /\ TodayUserCount(call.user_id, call.action_type)
                   >= MAX_DAILY_USER_ACTIONS) => ~QuerySent("global_count")
        /\ ret.reason = "user_limit_exceeded" => ~QuerySent("global_count")

\* The user is over the cap and the global count is over its cap too.
C6_Witness ==
    /\ Returned("is_action_allowed")
    /\ TodayUserCount(call.user_id, call.action_type)
           >= MAX_DAILY_USER_ACTIONS
    /\ TodayGlobalCount(call.action_type) >= MAX_DAILY_GLOBAL_ACTIONS
    /\ ret.reason = "user_limit_exceeded"
    /\ Len(queries) = 1

\* C7 as stated: a denial with reason user_limit_exceeded reports
\* global_remaining = 0 and user_remaining = 0.
C7_Original ==
    (Returned("is_action_allowed") /\ ret.reason = "user_limit_exceeded") =>
        (ret.global_remaining = Some(0) /\ ret.user_remaining = Some(0))

\* C7, amended: a denial with reason user_limit_exceeded reports
\* global_remaining = None (no value: the global check was not made) and
\* user_remaining = 0.
C7_GlobalRemainingNone ==
    (Returned("is_action_allowed") /\ ret.reason = "user_limit_exceeded") =>
        (ret.global_remaining = None /\ ret.user_remaining = Some(0)
         /\ ~ret.allowed)

C7_Witness ==
    /\ Returned("is_action_allowed")
    /\ ret.reason = "user_limit_exceeded"
    /\ TodayGlobalCount(call.action_type) < MAX_DAILY_GLOBAL_ACTIONS

\* C8: when the store query fails, check_user_limit returns allowed = true,
\* remaining = MAX_DAILY_USER_ACTIONS and check_global_limit returns
\* allowed = true, remaining = MAX_DAILY_GLOBAL_ACTIONS, whatever the table
\* holds, and neither raises.
C8_ChecksFailOpen ==
    /\ (Returned("check_user_limit") /\ QueryFailed("user_count")) =>
           /\ ret.allowed
           /\ ret.remaining = MAX_DAILY_USER_ACTIONS
           /\ ~ret.raised
    /\ (Returned("check_global_limit") /\ QueryFailed("global_count")) =>
           /\ ret.allowed
           /\ ret.remaining = MAX_DAILY_GLOBAL_ACTIONS
           /\ ~ret.raised
    /\ (Returned("check_user_limit") \/ Returned("check_global_limit")) =>
           ~ret.raised

\* The query fails while the true count is over the cap.
C8_Witness ==
    /\ Returned("check_user_limit") /\ QueryFailed("user_count")
    /\ TodayUserCount(call.user_id, call.action_type)
           > MAX_DAILY_USER_ACTIONS
    /\ ret.allowed

\* C9 as stated: if any query sent during a call of is_action_allowed fails,
\* the call returns allowed = true.
C9_Original ==
    (Returned("is_action_allowed") /\ SomeQueryFailed) => ret.allowed

\* C9, amended: a failed query counts as a passed check and the call never
\* raises.  If the global-count query fails the call returns allowed = true;
\* if only the user-count query fails the call returns what the global check
\* decides: allowed = true when the global count is below
\* MAX_DAILY_GLOBAL_ACTIONS, otherwise allowed = false with reason
\* global_limit_exceeded and user_remaining = MAX_DAILY_USER_ACTIONS.
C9_FailedCheckPasses ==
    (Returned("is_action_allowed") /\ SomeQueryFailed) =>
        LET gc == TodayGlobalCount(call.action_type)
        IN  /\ ~ret.raised
            /\ QuerySent("global_count")
            /\ QueryFailed("global_count") => ret.allowed
            /\ (~QueryFailed("global_count")
                /\ gc < MAX_DAILY_GLOBAL_ACTIONS) => ret.allowed
            /\ (~QueryFailed("global_count")
                /\ gc >= MAX_DAILY_GLOBAL_ACTIONS) =>
                   /\ ~ret.allowed
                   /\ ret.reason = "global_limit_exceeded"
                   /\ ret.user_remaining = Some(MAX_DAILY_USER_ACTIONS)
                   /\ ret.global_remaining = Some(0)

\* Both queries fail while both counts are at their caps.
C9_Witness ==
    /\ Returned("is_action_allowed")
    /\ QueryFailed("user_count") /\ QueryFailed("global_count")
    /\ TodayUserCount(call.user_id, call.action_type)
           >= MAX_DAILY_USER_ACTIONS
    /\ TodayGlobalCount(call.action_type) >= MAX_DAILY_GLOBAL_ACTIONS
    /\ ret.allowed

\* C10: a record_action whose insert succeeds returns true and adds exactly
\* one row, with the call's user_id and action_type and created_at equal to
\* the store's time of insertion; every row there before is still there.
C10_RecordAddsOneRow ==
    [][(call'.op = "record_action" /\ ~queries'[1].failed) =>
          LET new == [user_id |-> call'.user_id,
                      action_type |-> call'.action_type,
                      created_at |-> now]
          IN  /\ ret'.value = TRUE
              /\ ~ret'.raised
              /\ \A r \in Rows :
                     store'[r] = store[r] + (IF r = new THEN 1 ELSE 0)
      ]_vars

\* A row is added to a table that holds rows already, one of them equal to
\* the new one.
C10_Witness ==
    /\ Returned("record_action") /\ NoQueryFailed
    /\ ret.value = TRUE
    /\ store[[user_id |-> call.user_id, action_type |-> call.action_type,
              created_at |-> now]] = 2
    /\ \E r \in Rows : store[r] > 0 /\ r.created_at < now

\* The instant days_to_keep days before the clock, as a tick.
CutoffTick(d) == now - d * TicksPerDay
\* The rows of table s created strictly before tick c.
OlderThan(s, c) == SumOver(s, {r \in Rows : r.created_at < c})

\* C12: a cleanup_old_records(days_to_keep) whose delete succeeds removes
\* exactly the rows created strictly before (now - days_to_keep days),
\* leaves every row created at or after that instant as it was, and returns
\* the number of rows it removed.
C12_CleanupRemovesOld ==
    [][(call'.op = "cleanup_old_records" /\ ~queries'[1].failed) =>
          LET c == CutoffTick(call'.days_to_keep)
          IN  /\ \A r \in Rows :
                     store'[r] = (IF r.created_at < c THEN 0 ELSE store[r])
              /\ ret'.value = OlderThan(store, c)
              /\ ret'.value = LenData(store) - LenData(store')
              /\ ~ret'.raised
      ]_vars

\* A cleanup has removed a row and kept a row created exactly at the cutoff.
C12_Witness ==
    /\ Returned("cleanup_old_records") /\ NoQueryFailed
    /\ ret.value >= 1
    /\ CutoffTick(call.days_to_keep) >= 1
    /\ \E r \in Rows : /\ r.created_at = CutoffTick(call.days_to_keep)
                       /\ store[r] > 0

C14_CleanupFailure ==
    [][(call'.op = "cleanup_old_records" /\ queries'[1].failed) =>
          /\ ret'.value = 0
          /\ ~ret'.raised
          /\ store' = store
      ]_vars

\* The delete failed on a table that holds rows older than the cutoff.
C14_Witness ==
    /\ Returned("cleanup_old_records") /\ QueryFailed("delete")
    /\ ret.value = 0
    /\ OlderThan(store, CutoffTick(call.days_to_keep)) >= 1

\* C20: the checks are read-only and rows are immutable: check_user_limit,
\* check_global_limit and is_action_allowed leave the table as it is, whether
\* their queries succeed or fail; record_action only adds a row (no row there
\* before goes or changes) and cleanup_old_records only removes rows (none
\* appears or changes); no other step touches the table.
C20_RowsImmutable ==
    [][/\ call'.op \in {"check_user_limit", "check_global_limit",
                        "is_action_allowed", "idle"} => store' = store
       /\ call'.op = "record_action" =>
              /\ \A r \in Rows : store'[r] >= store[r]
              /\ LenData(store') - LenData(store) \in {0, 1}
       /\ call'.op = "cleanup_old_records" =>
              \A r \in Rows : store'[r] \in {0, store[r]}
      ]_vars

\* A check has failed on a table that holds rows.
C20_Witness ==
    /\ Returned("is_action_allowed") /\ QueryFailed("global_count")
    /\ LenData(store) = MaxRecords
    /\ \E r \in Rows : store[r] >= 2

\* C19: when a failure escapes one of the two sub-checks inside
\* is_action_allowed, the call does not raise and returns allowed = true,
\* reason = check_failed, user_remaining = None and global_remaining = None.
C19_OuterFailOpen ==
    (Returned("is_action_allowed") /\ "escaped" \in DOMAIN call
     /\ call.escaped) =>
        /\ ~ret.raised
        /\ ret.allowed
        /\ ret.reason = "check_failed"
        /\ ret.user_remaining = None
        /\ ret.global_remaining = None

\* The global check raises after the user check has passed with its query
\* answered, on a day whose global count is at the cap.
C19_Witness ==
    /\ Returned("is_action_allowed") /\ "escaped" \in DOMAIN call
    /\ call.escaped
    /\ Len(queries) = 1 /\ ~queries[1].failed
    /\ TodayGlobalCount(call.action_type) >= MAX_DAILY_GLOBAL_ACTIONS
    /\ ret.reason = "check_failed"

\* C11: when the store insert fails, record_action returns false without
\* raising and the records are unchanged; _record_action returns normally,
\* so the operation whose side effect has happened reports success, the side
\* effect stays and nothing is tried again.
C11_FailedRecordKeepsSuccess ==
    [][(agents[1].pc = "record" /\ agents'[1].pc # "record"
        /\ agents'[1].recorded_ok # "true")
       => /\ agents'[1].recorded_ok = "false"
          /\ store' = store
          /\ agents'[1].pc = "done"
          /\ agents'[1].outcome = "success"
          /\ agents[1].effects = 1 /\ agents'[1].effects = 1
          /\ agents'[1].checks = 1
          /\ agents'[1].records = 1]_vars

C11_Witness ==
    /\ agents[1].pc = "done"
    /\ agents[1].recorded_ok = "false"
    /\ agents[1].outcome = "success"
    /\ agents[1].effects = 1

\* C15: with no failure and one caller at a time, starting from an empty log,
\* the check of an operation that the user has completed k times today is
\* allowed while k < MAX_DAILY_USER_ACTIONS and the global cap is not
\* reached, and is denied with user_limit_exceeded when
\* k = MAX_DAILY_USER_ACTIONS; k never passes the cap.
C15_DailyUserCap ==
    [][(agents[1].pc = "idle" /\ agents'[1].checks = 1)
       => LET u == agents'[1].user_id
              a == ActionTypeOf(agents'[1].op)
              k == recorded[u][a]
          IN  /\ k = TodayUserCount(u, a)
              /\ k <= MAX_DAILY_USER_ACTIONS
              /\ (k < MAX_DAILY_USER_ACTIONS
                  /\ TodayGlobalCount(a) < MAX_DAILY_GLOBAL_ACTIONS)
                 => /\ agents'[1].pc = "effect"
                    /\ agents'[1].reason = "within_limits"
              /\ k = MAX_DAILY_USER_ACTIONS
                 => /\ agents'[1].pc = "done"
                    /\ agents'[1].outcome = "rate_limited"
                    /\ agents'[1].reason = "user_limit_exceeded"]_vars

C15_Witness ==
    /\ agents[1].pc = "done"
    /\ agents[1].op = "register_attendee"
    /\ agents[1].user_id = "a@x.com"
    /\ agents[1].outcome = "rate_limited"
    /\ agents[1].reason = "user_limit_exceeded"
    /\ recorded["a@x.com"]["register_attendee"] = MAX_DAILY_USER_ACTIONS
    /\ TodayGlobalCount("register_attendee") < MAX_DAILY_GLOBAL_ACTIONS

\* The reasons with which is_action_allowed answers allowed = false.
Denials == {"user_limit_exceeded", "global_limit_exceeded"}

\* C16: in every guarded operation the side effect happens only after one
\* rate-limit check that did not deny; when is_action_allowed answers
\* allowed = false the operation returns the denial with no side effect, no
\* record appended and no second check.
C16_CheckGuardsEffect ==
    [][/\ agents'[1].reason \in Denials
          => /\ agents'[1].pc = "done"
             /\ agents'[1].outcome = "rate_limited"
             /\ agents'[1].effects = 0
             /\ agents'[1].records = 0
             /\ agents'[1].checks = 1
             /\ store' = store
       /\ agents'[1].outcome = "rate_limited"
          => agents'[1].reason \in Denials
       /\ agents'[1].effects > agents[1].effects
          => /\ agents[1].pc = "effect"
             /\ agents[1].checks = 1
             /\ agents[1].reason \notin Denials
             /\ agents[1].effects = 0]_vars

C16_Witness ==
    /\ agents[1].pc = "done"
    /\ agents[1].op = "run"
    /\ agents[1].outcome = "rate_limited"
    /\ agents[1].reason = "user_limit_exceeded"
    /\ TodayUserCount("a@x.com", "agent_query") = MAX_DAILY_USER_ACTIONS

\* C17: whenever the permit was granted and the guarded side effect has been
\* performed, record_action has been called for the same user and action
\* type by the time the operation returns.
C17_EffectIsRecorded ==
    (agents[1].pc = "done" /\ agents[1].effects > 0)
        => agents[1].records > 0

\* The callers whose operation for user u is between its check and its
\* return.
InFlight(u) ==
    {p \in Callers : agents[p].pc \in {"effect", "record"}
                     /\ agents[p].user_id = u}

\* C18: the count read by the check and the insert of the record are
\* separate steps, so concurrent callers that were all allowed below the cap
\* can all record: today's count of a pair, and the global count, can pass
\* the cap, and only the callers in flight bound the excess (the count plus
\* the callers still to record stays below the cap plus the number of
\* callers).
C18_SoftCapUnderRace ==
    LET a == "register_attendee"
    IN  /\ \A u \in Users :
              TodayUserCount(u, a) + Cardinality(InFlight(u))
                  <= MAX_DAILY_USER_ACTIONS + NumCallers - 1
        /\ TodayGlobalCount(a)
              + Cardinality(UNION {InFlight(u) : u \in Users})
                  <= MAX_DAILY_GLOBAL_ACTIONS + NumCallers - 1

C18_Witness ==
    /\ TodayUserCount("a@x.com", "register_attendee")
          = MAX_DAILY_USER_ACTIONS + 1
    /\ TodayGlobalCount("register_attendee") = MAX_DAILY_GLOBAL_ACTIONS + 1
    /\ \A p \in 1..2 : /\ agents[p].pc = "done"
                        /\ agents[p].outcome = "success"
                        /\ agents[p].reason = "within_limits"

\* C25: every result of check_user_limit and of check_global_limit, whether
\* the query succeeded or failed and whatever the table holds, has
\* 0 <= remaining <= cap and allowed = (remaining >= 1); a denial carries
\* remaining = 0, also when the count is over the cap.
C25_RemainingInRange ==
    /\ Returned("check_user_limit") =>
           /\ 0 <= ret.remaining
           /\ ret.remaining <= MAX_DAILY_USER_ACTIONS
           /\ ret.allowed = (ret.remaining >= 1)
    /\ Returned("check_global_limit") =>
           /\ 0 <= ret.remaining
           /\ ret.remaining <= MAX_DAILY_GLOBAL_ACTIONS
           /\ ret.allowed = (ret.remaining >= 1)

\* The global count is over its cap and the query succeeds.
C25_Witness ==
    /\ Returned("check_global_limit") /\ NoQueryFailed
    /\ TodayGlobalCount(call.action_type) > MAX_DAILY_GLOBAL_ACTIONS
    /\ \E u \in Users : TodayUserCount(u, call.action_type)
                             > MAX_DAILY_USER_ACTIONS
    /\ ~ret.allowed
    /\ ret.remaining = 0

\* C23: failed store queries never make is_action_allowed answer with reason
\* check_failed; when both queries fail it returns allowed = true, reason
\* within_limits, user_remaining = MAX_DAILY_USER_ACTIONS and
\* global_remaining = MAX_DAILY_GLOBAL_ACTIONS, the very result of the call
\* on an empty table whose queries succeed.
C23_FailuresLookWithinLimits ==
    Returned("is_action_allowed") =>
        /\ ret.reason # "check_failed"
        /\ (QueryFailed("user_count") /\ QueryFailed("global_count")) =>
               /\ ret.allowed
               /\ ret.reason = "within_limits"
               /\ ret.user_remaining = Some(MAX_DAILY_USER_ACTIONS)
               /\ ret.global_remaining = Some(MAX_DAILY_GLOBAL_ACTIONS)
               /\ ret = is_action_allowed(EmptyTable, now, call.user_id,
                                          call.action_type, FALSE, FALSE).ret

\* Both queries fail while both counts have reached their caps.
C23_Witness ==
    /\ Returned("is_action_allowed")
    /\ QueryFailed("user_count") /\ QueryFailed("global_count")
    /\ TodayUserCount(call.user_id, call.action_type)
           >= MAX_DAILY_USER_ACTIONS
    /\ TodayGlobalCount(call.action_type) >= MAX_DAILY_GLOBAL_ACTIONS
    /\ ret.reason = "within_limits"

\* C24: for days_to_keep >= 1, cleanup_old_records deletes no row created
\* today, so check_user_limit, check_global_limit and is_action_allowed, for
\* every user and action type and at the same clock time, return the same
\* after the cleanup as before it.
C24_CleanupKeepsToday ==
    [][(call = Idle /\ call'.op = "cleanup_old_records"
        /\ call'.days_to_keep >= 1)
       => /\ \A r \in Rows : IsToday(r) => store'[r] = store[r]
          /\ \A u \in Users, a \in ActionTypes, f \in BOOLEAN :
                /\ check_user_limit(store', now, u, a, f).ret
                      = check_user_limit(store, now, u, a, f).ret
                /\ check_global_limit(store', now, a, f).ret
                      = check_global_limit(store, now, a, f).ret
                /\ \A g \in BOOLEAN :
                      is_action_allowed(store', now, u, a, f, g).ret
                        = is_action_allowed(store, now, u, a, f, g).ret]_vars

\* A cleanup that deleted rows while rows of today are in the table.
C24_Witness ==
    /\ Returned("cleanup_old_records") /\ NoQueryFailed
    /\ call.days_to_keep >= 1
    /\ ret.value > 0
    /\ \E u \in Users, a \in ActionTypes : TodayUserCount(u, a) > 0

\* C22: with one caller at a time, no failure and every record made by the
\* agent's check, side effect and record from an empty log, today's records
\* of a user and action type never pass MAX_DAILY_USER_ACTIONS and today's
\* records of an action type never pass MAX_DAILY_GLOBAL_ACTIONS, midnight
\* falling between a check and its record included.
C22_CapsHold ==
    \A a \in ActionTypes :
        /\ TodayGlobalCount(a) <= MAX_DAILY_GLOBAL_ACTIONS
        /\ \A u \in Users : TodayUserCount(u, a) <= MAX_DAILY_USER_ACTIONS

\* The last permit of one day is recorded on the next day.
C22_Witness ==
    LET c == agents[1]
    IN  /\ c.pc = "done" /\ c.outcome = "success" /\ c.recorded_ok = "true"
        /\ c.checked_on < DateTime(now).date
        /\ TodayUserCount(c.user_id, ActionTypeOf(c.op)) = 1
        /\ SumOver(store, {r \in Rows : /\ r.user_id = c.user_id
                                         /\ r.action_type = ActionTypeOf(c.op)
                                         /\ ~IsToday(r)})
              = MAX_DAILY_USER_ACTIONS - 1

\* C21: the quota resets at midnight without a write.  While a caller holds
\* a denial from an earlier day and no record has been inserted since,
\* check_user_limit for the denied pair returns allowed = true with
\* remaining = MAX_DAILY_USER_ACTIONS and check_global_limit for its action
\* type returns allowed = true with remaining = MAX_DAILY_GLOBAL_ACTIONS,
\* the old records being still in the table.
C21_QuotaResetsAtMidnight ==
    LET c == agents[1]
    IN  (c.outcome = "rate_limited" /\ c.checked_on < DateTime(now).date) =>
            /\ LenData(store) >= MAX_DAILY_USER_ACTIONS
            /\ TodayGlobalCount(ActionTypeOf(c.op)) = 0
            /\ (Returned("check_user_limit") /\ call.user_id = c.user_id
                 /\ call.action_type = ActionTypeOf(c.op)) =>
                   /\ ret.allowed
                   /\ ret.remaining = MAX_DAILY_USER_ACTIONS
            /\ (Returned("check_global_limit")
                 /\ call.action_type = ActionTypeOf(c.op)) =>
                   /\ ret.allowed
                   /\ ret.remaining = MAX_DAILY_GLOBAL_ACTIONS

\* The pair was denied at its user cap yesterday and is checked today.
C21_Witness ==
    LET c == agents[1]
    IN  /\ c.outcome = "rate_limited" /\ c.reason = "user_limit_exceeded"
        /\ c.checked_on < DateTime(now).date
        /\ Returned("check_user_limit") /\ NoQueryFailed
        /\ call.user_id = c.user_id
        /\ call.action_type = ActionTypeOf(c.op)
        /\ ret.allowed /\ ret.remaining = MAX_DAILY_USER_ACTIONS
        /\ SumOver(store, {r \in Rows : /\ r.user_id = c.user_id
                                         /\ r.action_type = ActionTypeOf(c.op)
                                         /\ ~IsToday(r)})
              >= MAX_DAILY_USER_ACTIONS

====
